---- MODULE Spec2Model ----
(***************************************************************************)
(* tty_doc (src/main.rs): a file viewer with an AI side panel.             *)
(*                                                                         *)
(* The UI thread runs MyApp::new and then one handler per frame of         *)
(* MyApp::update (Try Again, Clear Memory, Send, typing).  send_to_ai      *)
(* spawns a detached worker thread per request.  The UI thread and the     *)
(* workers share AiState through four mutexes; every lock is held for one  *)
(* statement only, so every locked statement is one step here and the      *)
(* steps of the UI thread and of the workers interleave freely.            *)
(*                                                                         *)
(* Text is kept run-length encoded: a string is a sequence of runs         *)
(* [ch |-> character class, n |-> repetitions].                            *)
(***************************************************************************)
EXTENDS Integers, Sequences, FiniteSets, TLC

\* ---------------------------------------------------------------- bounds
\* Number of AI requests dispatched in one run.
MaxReq == 2
\* Size of the strings enumerated for get_file_info.
MaxRuns == 2
MaxRunLen == 2

\* ------------------------------------------------------ program constants
\* generate_initial_summary: `self.file_content.len() > 4000`
SummaryLimit == 4000
\* ask_question: `self.file_content.len() > 3000`
QuestionLimit == 3000

\* ------------------------------------------------------------------ text
\* Character classes of UTF-8 text: ASCII letter, LF, CR, and 2-, 3- and
\* 4-byte scalars.
Chars == {"a", "nl", "cr", "u2", "u3", "u4"}

\* Encoded length of one char (char::len_utf8).
Width(c) == CASE c = "u2" -> 2 [] c = "u3" -> 3 [] c = "u4" -> 4 [] OTHER -> 1

EmptyString == << >>

Run(c, k) == [ch |-> c, n |-> k]

\* str::len : length in bytes.
RECURSIVE ByteLen(_)
ByteLen(s) ==
    IF s = << >> THEN 0
    ELSE Head(s).n * Width(Head(s).ch) + ByteLen(Tail(s))

\* str::chars().count() : number of scalar values.
RECURSIVE CharsCount(_)
CharsCount(s) ==
    IF s = << >> THEN 0 ELSE Head(s).n + CharsCount(Tail(s))

\* str::lines().count().  lines() is split_inclusive('\n') with the line
\* ending stripped from each piece: every LF closes the piece being read
\* (possibly empty), and a last piece is produced only if it is non-empty.
RECURSIVE LinesFrom(_, _, _)
LinesFrom(s, closed, open) ==
    IF s = << >> THEN closed + (IF open THEN 1 ELSE 0)
    ELSE IF Head(s).ch = "nl"
         THEN LinesFrom(Tail(s), closed + Head(s).n, FALSE)
         ELSE LinesFrom(Tail(s), closed, TRUE)

\* A variant that counts like split('\n'): the piece after the last LF is
\* counted even when it is empty.
LinesCount_split(s) == LinesFrom(s \o << Run("a", 1) >>, 0, FALSE)

LinesCount(s) == LinesFrom(s, 0, FALSE)

\* str::is_char_boundary(idx).
RECURSIVE IsCharBoundary(_, _)
IsCharBoundary(s, idx) ==
    IF idx = 0 THEN TRUE
    ELSE IF s = << >> THEN FALSE
    ELSE LET w == Width(Head(s).ch)
             bytes == Head(s).n * w
         IN  IF idx < bytes THEN idx % w = 0
             ELSE IsCharBoundary(Tail(s), idx - bytes)

\* &s[..idx] for idx on a char boundary.
RECURSIVE SliceTo(_, _)
SliceTo(s, idx) ==
    IF idx = 0 \/ s = << >> THEN << >>
    ELSE LET w == Width(Head(s).ch)
             bytes == Head(s).n * w
         IN  IF idx < bytes THEN << Run(Head(s).ch, idx \div w) >>
             ELSE << Head(s) >> \o SliceTo(Tail(s), idx - bytes)

\* `&self.file_content[..limit]` panics when limit is inside a character.
SlicePanics(s, limit) == ByteLen(s) > limit /\ ~IsCharBoundary(s, limit)

\* truncated_content of generate_initial_summary / ask_question.
Truncated(s, limit) ==
    IF ByteLen(s) > limit
    THEN [text |-> SliceTo(s, limit), ellipsis |-> TRUE]
    ELSE [text |-> s, ellipsis |-> FALSE]

\* str::trim().is_empty() for the question box.
TrimIsEmpty(q) == q \in {"", " "}

\* ------------------------------------------------------------- documents
\* What fs::read_to_string can return for the path given on the command
\* line.
DocEmpty == EmptyString
DocSmall == << Run("a", 1), Run("nl", 1), Run("a", 1) >>
DocLongAscii == << Run("a", 4001) >>
DocEuro == << Run("u3", 1334) >>
DocAccent == << Run("a", 1), Run("u2", 1500) >>
Docs == {DocEmpty, DocSmall, DocLongAscii, DocEuro, DocAccent}

\* Outcome of Path::exists + fs::read_to_string.
ReadResults ==
    {[kind |-> "missing", text |-> EmptyString],
     [kind |-> "unreadable", text |-> EmptyString]}
    \cup {[kind |-> "ok", text |-> d] : d \in Docs}

Questions == {"", " ", "q"}

\* ----------------------------------------------------------------- state
VARIABLES
    file_path,                  \* MyApp.file_path: "" or "p"
    file_content,               \* MyApp.file_content
    error_message,              \* MyApp.error_message
    highlighted_content,        \* MyApp.highlighted_content
    initial_summary_generated,  \* MyApp.initial_summary_generated
    current_question,           \* MyApp.current_question
    is_processing,              \* AiState.is_processing
    current_response,           \* AiState.current_response
    chat_history,               \* AiState.chat_history
    error,                      \* AiState.error
    threads,                    \* the workers spawned by send_to_ai
    ui,                         \* position of the UI thread
    aborted,                    \* the UI thread panicked
    file_info                   \* last string built by get_file_info

vars == << file_path, file_content, error_message, highlighted_content,
           initial_summary_generated, current_question, is_processing,
           current_response, chat_history, error, threads, ui, aborted,
           file_info >>

docVars == << file_path, file_content, error_message, highlighted_content,
              initial_summary_generated >>

aiVars == << is_processing, current_response, chat_history, error >>

\* Option<Vec<..>>: None, or Some with one entry per line.
NoHighlight == [some |-> FALSE, lines |-> 0]

\* Option<String> of AiState.error; req is the request whose worker wrote it.
NoError == [kind |-> "none", req |-> 0]

\* String::new() in current_response; otherwise the number of the request
\* whose reply it holds.
NoResponse == 0

NoPrompt == [is_summary |-> FALSE, text |-> EmptyString, ellipsis |-> FALSE,
             question |-> ""]

UiIdle == [pc |-> "idle", caller |-> "none", prompt |-> NoPrompt, base |-> 0]

NoInfo == [lines |-> 0, chars |-> 0, bytes |-> 0]

\* struct literal of MyApp::new and AiState::new.
Init ==
    /\ file_path \in {"", "p"}
    /\ file_content = EmptyString
    /\ error_message = "None"
    /\ highlighted_content = NoHighlight
    /\ initial_summary_generated = FALSE
    /\ current_question = ""
    /\ is_processing = FALSE
    /\ current_response = NoResponse
    /\ chat_history = << >>
    /\ error = NoError
    /\ threads = << >>
    /\ ui = [UiIdle EXCEPT !.pc = "new", !.caller = "new"]
    /\ aborted = FALSE
    /\ file_info = NoInfo

Outstanding == {r \in 1..Len(threads) : threads[r].pc # "done"}


\* ------------------------------------------------------------ UI thread
\* A panic on the UI thread unwinds out of eframe::run_native and ends the
\* process.
Abort == aborted' = TRUE

\* highlight_content: None for empty content, else one entry per line of
\* LinesWithEndings.
highlight_content(text) ==
    IF text = EmptyString THEN NoHighlight
    ELSE [some |-> TRUE, lines |-> LinesCount(text)]

\* generate_initial_summary up to its call of send_to_ai: slice the content
\* at byte 4000, build the prompt and enter send_to_ai(prompt, true).
generate_initial_summary(text, caller) ==
    IF SlicePanics(text, SummaryLimit)
    THEN /\ Abort
         /\ UNCHANGED ui
    ELSE /\ ui' = [pc |-> "set_processing", caller |-> caller,
                   prompt |-> [is_summary |-> TRUE,
                               text |-> Truncated(text, SummaryLimit).text,
                               ellipsis |-> Truncated(text, SummaryLimit).ellipsis,
                               question |-> ""],
                   base |-> Len(threads)]
         /\ UNCHANGED aborted

\* load_file: Path::exists is false.
load_missing(res) ==
    /\ res.kind = "missing"
    /\ error_message' = "NotFound"
    /\ highlighted_content' = NoHighlight
    /\ ui' = UiIdle
    /\ UNCHANGED << file_path, file_content, initial_summary_generated,
                    aborted >>

\* load_file: fs::read_to_string returns Err (I/O error or invalid UTF-8).
load_unreadable(res) ==
    /\ res.kind = "unreadable"
    /\ error_message' = "ReadError"
    /\ highlighted_content' = NoHighlight
    /\ ui' = UiIdle
    /\ UNCHANGED << file_path, file_content, initial_summary_generated,
                    aborted >>

\* A success arm that leaves the old error message in place.
load_ok_keeps_error(res, caller) ==
    /\ res.kind = "ok"
    /\ file_content' = res.text
    /\ highlighted_content' = highlight_content(res.text)
    /\ IF ~initial_summary_generated /\ res.text # EmptyString
       THEN /\ Len(threads) < MaxReq
            /\ generate_initial_summary(res.text, caller)
       ELSE /\ ui' = UiIdle
            /\ UNCHANGED aborted
    /\ UNCHANGED << file_path, error_message, initial_summary_generated >>

\* load_file: fs::read_to_string returns Ok(content).
load_ok(res, caller) ==
    /\ res.kind = "ok"
    /\ file_content' = res.text
    /\ error_message' = "None"
    /\ highlighted_content' = highlight_content(res.text)
    /\ IF ~initial_summary_generated /\ res.text # EmptyString
       THEN /\ Len(threads) < MaxReq
            /\ generate_initial_summary(res.text, caller)
       ELSE /\ ui' = UiIdle
            /\ UNCHANGED aborted
    /\ UNCHANGED << file_path, initial_summary_generated >>

\* load_file, for the outcome res of Path::exists and fs::read_to_string.
load_file(res, caller) ==
    \/ load_missing(res)
    \/ load_unreadable(res)
    \/ load_ok(res, caller)

\* MyApp::new after the struct literal: load the file, or report that no
\* path was given.
New ==
    /\ ~aborted
    /\ ui.pc = "new"
    /\ IF file_path # ""
       THEN \E res \in ReadResults : load_file(res, "new")
       ELSE /\ error_message' = "NoPath"
            /\ ui' = UiIdle
            /\ UNCHANGED << file_path, file_content, highlighted_content,
                            initial_summary_generated, aborted >>
    /\ UNCHANGED << current_question, aiVars, threads, file_info >>

\* A Try Again that is offered whether or not an error is shown.
TryAgain_always ==
    /\ ~aborted
    /\ ui.pc = "idle"
    /\ file_path # ""
    /\ \E res \in ReadResults : load_file(res, "retry")
    /\ UNCHANGED << current_question, aiVars, threads, file_info >>

\* update: the Try Again button, shown while error_message is set and the
\* path is non-empty, sets should_reload; load_file runs at the end of the
\* frame.
TryAgain ==
    /\ ~aborted
    /\ ui.pc = "idle"
    /\ error_message # "None"
    /\ file_path # ""
    /\ \E res \in ReadResults : load_file(res, "retry")
    /\ UNCHANGED << current_question, aiVars, threads, file_info >>

\* update: text_edit_singleline(&mut self.current_question).
TypeQuestion ==
    /\ ~aborted
    /\ ui.pc = "idle"
    /\ \E q \in Questions : current_question' = q
    /\ UNCHANGED << docVars, aiVars, threads, ui, aborted, file_info >>

\* update: Send clicked (or Enter) while is_processing reads false, then
\* ask_question up to its call of send_to_ai(prompt, false).
Send ==
    /\ ~aborted
    /\ ui.pc = "idle"
    /\ ~is_processing
    /\ Len(threads) < MaxReq
    /\ IF TrimIsEmpty(current_question)
       THEN UNCHANGED << ui, aborted >>
       ELSE IF SlicePanics(file_content, QuestionLimit)
       THEN /\ Abort
            /\ UNCHANGED ui
       ELSE /\ ui' = [pc |-> "set_processing", caller |-> "ask",
                      prompt |-> [is_summary |-> FALSE,
                                  text |-> Truncated(file_content, QuestionLimit).text,
                                  ellipsis |-> Truncated(file_content, QuestionLimit).ellipsis,
                                  question |-> current_question],
                      base |-> Len(threads)]
            /\ UNCHANGED aborted
    /\ UNCHANGED << docVars, current_question, aiVars, threads, file_info >>

\* clear_chat, first statement: chat_history.clear().
ClearChat ==
    /\ ~aborted
    /\ ui.pc = "idle"
    /\ file_content # EmptyString => Len(threads) < MaxReq
    /\ chat_history' = << >>
    /\ ui' = [UiIdle EXCEPT !.pc = "clear_response", !.caller = "clear",
                            !.base = Len(threads)]
    /\ UNCHANGED << docVars, current_question, is_processing,
                    current_response, error, threads, aborted, file_info >>

\* clear_chat, second statement: current_response = String::new().
ClearResponse ==
    /\ ~aborted
    /\ ui.pc = "clear_response"
    /\ current_response' = NoResponse
    /\ ui' = [ui EXCEPT !.pc = "clear_error"]
    /\ UNCHANGED << docVars, current_question, is_processing, chat_history,
                    error, threads, aborted, file_info >>

\* clear_chat, rest: error = None, current_question.clear(), and the
\* summary is regenerated when a document is loaded.
ClearError ==
    /\ ~aborted
    /\ ui.pc = "clear_error"
    /\ error' = NoError
    /\ current_question' = ""
    /\ IF file_content # EmptyString
       THEN generate_initial_summary(file_content, "clear")
       ELSE /\ ui' = UiIdle
            /\ UNCHANGED aborted
    /\ UNCHANGED << docVars, is_processing, current_response, chat_history,
                    threads, file_info >>

\* send_to_ai: *is_processing = true.
SetProcessing ==
    /\ ~aborted
    /\ ui.pc = "set_processing"
    /\ is_processing' = TRUE
    /\ ui' = [ui EXCEPT !.pc = "reset_response"]
    /\ UNCHANGED << docVars, current_question, current_response,
                    chat_history, error, threads, aborted, file_info >>

\* send_to_ai: *current_response = String::new().
ResetResponse ==
    /\ ~aborted
    /\ ui.pc = "reset_response"
    /\ current_response' = NoResponse
    /\ ui' = [ui EXCEPT !.pc = "reset_error"]
    /\ UNCHANGED << docVars, current_question, is_processing, chat_history,
                    error, threads, aborted, file_info >>

\* send_to_ai: *error = None.
ResetError ==
    /\ ~aborted
    /\ ui.pc = "reset_error"
    /\ error' = NoError
    /\ ui' = [ui EXCEPT !.pc = IF ui.prompt.is_summary THEN "spawn"
                                ELSE "push_user"]
    /\ UNCHANGED << docVars, current_question, is_processing,
                    current_response, chat_history, threads, aborted,
                    file_info >>

\* send_to_ai: the user turn is pushed unless the request is a summary.
\* The turn is tagged with the number the request is about to get.
PushUser ==
    /\ ~aborted
    /\ ui.pc = "push_user"
    /\ chat_history' = Append(chat_history,
                              [role |-> "user", req |-> Len(threads) + 1])
    /\ ui' = [ui EXCEPT !.pc = "spawn"]
    /\ UNCHANGED << docVars, current_question, is_processing,
                    current_response, error, threads, aborted, file_info >>

\* send_to_ai: thread::spawn, then the return into the caller (rivals
\* records which earlier workers are still running beside the new one):
\* load_file sets initial_summary_generated, ask_question clears the
\* question box.
Spawn ==
    /\ ~aborted
    /\ ui.pc = "spawn"
    /\ threads' = Append(threads, [pc |-> "post", origin |-> ui.caller,
                                   prompt |-> ui.prompt,
                                   outcome |-> "pending",
                                   rivals |-> Outstanding])
    /\ initial_summary_generated' =
           IF ui.caller \in {"new", "retry"} THEN TRUE
           ELSE initial_summary_generated
    /\ current_question' = IF ui.caller = "ask" THEN "" ELSE current_question
    /\ ui' = UiIdle
    /\ UNCHANGED << file_path, file_content, error_message,
                    highlighted_content, aiVars, aborted, file_info >>


\* ------------------------------------------------------- worker threads
Outcomes == {"ok", "parse", "status", "connect"}

\* A success arm that stores its reply only into an empty response slot.
WorkerOk_keeps_first(r) ==
    /\ ~aborted
    /\ r \in 1..Len(threads)
    /\ threads[r].pc = "post"
    /\ current_response' =
           (IF current_response = NoResponse THEN r ELSE current_response)
    /\ threads' = [threads EXCEPT ![r].pc = "push", ![r].outcome = "ok"]
    /\ UNCHANGED << docVars, current_question, is_processing, chat_history,
                    error, ui, aborted, file_info >>

\* The closure of thread::spawn up to its first lock: the POST succeeded,
\* the status is a success and the body decodes; current_response is set.
WorkerOk(r) ==
    /\ ~aborted
    /\ r \in 1..Len(threads)
    /\ threads[r].pc = "post"
    /\ current_response' = r
    /\ threads' = [threads EXCEPT ![r].pc = "push", ![r].outcome = "ok"]
    /\ UNCHANGED << docVars, current_question, is_processing, chat_history,
                    error, ui, aborted, file_info >>

\* The closure, Ok arm: the assistant turn is pushed.
WorkerPush(r) ==
    /\ ~aborted
    /\ r \in 1..Len(threads)
    /\ threads[r].pc = "push"
    /\ chat_history' = Append(chat_history, [role |-> "assistant", req |-> r])
    /\ threads' = [threads EXCEPT ![r].pc = "clear"]
    /\ UNCHANGED << docVars, current_question, is_processing,
                    current_response, error, ui, aborted, file_info >>

\* An error arm that returns from the closure after storing the error.
WorkerFail_returns(r, kind) ==
    /\ ~aborted
    /\ r \in 1..Len(threads)
    /\ threads[r].pc = "post"
    /\ kind \in Outcomes \ {"ok"}
    /\ error' = [kind |-> kind, req |-> r]
    /\ threads' = [threads EXCEPT ![r].pc = "done", ![r].outcome = kind]
    /\ UNCHANGED << docVars, current_question, is_processing,
                    current_response, chat_history, ui, aborted, file_info >>

\* An error arm that also records the error text as an assistant turn.
WorkerFail_pushes(r, kind) ==
    /\ ~aborted
    /\ r \in 1..Len(threads)
    /\ threads[r].pc = "post"
    /\ kind \in Outcomes \ {"ok"}
    /\ error' = [kind |-> kind, req |-> r]
    /\ chat_history' = Append(chat_history, [role |-> "assistant", req |-> r])
    /\ threads' = [threads EXCEPT ![r].pc = "clear", ![r].outcome = kind]
    /\ UNCHANGED << docVars, current_question, is_processing,
                    current_response, ui, aborted, file_info >>

\* The closure, error arms: the body does not decode ("parse"), the status
\* is not a success ("status"), or send() fails ("connect"); the error
\* string is stored.
WorkerFail(r, kind) ==
    /\ ~aborted
    /\ r \in 1..Len(threads)
    /\ threads[r].pc = "post"
    /\ kind \in Outcomes \ {"ok"}
    /\ error' = [kind |-> kind, req |-> r]
    /\ threads' = [threads EXCEPT ![r].pc = "clear", ![r].outcome = kind]
    /\ UNCHANGED << docVars, current_question, is_processing,
                    current_response, chat_history, ui, aborted, file_info >>

\* The closure, last statement: *is_processing = false.
WorkerClear(r) ==
    /\ ~aborted
    /\ r \in 1..Len(threads)
    /\ threads[r].pc = "clear"
    /\ is_processing' = FALSE
    /\ threads' = [threads EXCEPT ![r].pc = "done"]
    /\ UNCHANGED << docVars, current_question, current_response,
                    chat_history, error, ui, aborted, file_info >>

WorkerStep(r) ==
    \/ WorkerOk(r)
    \/ WorkerPush(r)
    \/ \E kind \in Outcomes \ {"ok"} : WorkerFail(r, kind)
    \/ WorkerClear(r)

\* The statements of a handler after its first one.
UiContinue ==
    \/ ClearResponse
    \/ ClearError
    \/ SetProcessing
    \/ ResetResponse
    \/ ResetError
    \/ PushUser
    \/ Spawn

Next ==
    \/ New
    \/ TryAgain
    \/ TypeQuestion
    \/ Send
    \/ ClearChat
    \/ ClearResponse
    \/ ClearError
    \/ SetProcessing
    \/ ResetResponse
    \/ ResetError
    \/ PushUser
    \/ Spawn
    \/ \E r \in 1..MaxReq : WorkerOk(r)
    \/ \E r \in 1..MaxReq : WorkerPush(r)
    \/ \E r \in 1..MaxReq, kind \in Outcomes \ {"ok"} : WorkerFail(r, kind)
    \/ \E r \in 1..MaxReq : WorkerClear(r)

Spec == Init /\ [][Next]_vars

\* The UI thread and every worker thread keep running: MyApp::new and a
\* handler run to their end, and a worker's blocking POST returns (reqwest's
\* blocking client has a default timeout).
FairSpec ==
    /\ Spec
    /\ WF_vars(New)
    /\ WF_vars(UiContinue)
    /\ \A r \in 1..MaxReq : WF_vars(WorkerStep(r))


\* ---------------------------------------------------------- file info
\* get_file_info: the three numbers of "Lines: {} | Characters: {} |
\* Bytes: {}", or the empty string for empty content.
get_file_info(text) ==
    IF text = EmptyString THEN NoInfo
    ELSE [lines |-> LinesCount(text), chars |-> CharsCount(text),
          bytes |-> ByteLen(text)]

\* update: the status bar shows get_file_info().
GetFileInfo ==
    /\ ~aborted
    /\ ui.pc = "idle"
    /\ file_info' = get_file_info(file_content)
    /\ UNCHANGED << docVars, current_question, aiVars, threads, ui, aborted >>

\* Strings of at most MaxRuns runs of at most MaxRunLen characters.
RunSet == {Run(c, k) : c \in Chars, k \in 1..MaxRunLen}

InfoContents ==
    UNION {[1..len -> RunSet] : len \in 1..MaxRuns}

\* A document has been loaded and its summary request has failed to
\* connect: the viewer shows the text and the status bar.
InitInfo ==
    /\ file_path = "p"
    /\ file_content \in InfoContents
    /\ error_message = "None"
    /\ highlighted_content = highlight_content(file_content)
    /\ initial_summary_generated = TRUE
    /\ current_question = ""
    /\ is_processing = FALSE
    /\ current_response = NoResponse
    /\ chat_history = << >>
    /\ error = [kind |-> "connect", req |-> 1]
    /\ threads = << [pc |-> "done", origin |-> "new",
                     prompt |-> [is_summary |-> TRUE, text |-> file_content,
                                 ellipsis |-> FALSE, question |-> ""],
                     outcome |-> "connect", rivals |-> {}] >>
    /\ ui = UiIdle
    /\ aborted = FALSE
    /\ file_info = NoInfo

NextInfo == GetFileInfo

SpecInfo == InitInfo /\ [][NextInfo]_vars

\* ---------------------------------------------------------------- claims
\* The UI thread is inside send_to_ai, between setting the flag and the
\* spawn of the worker.
Dispatching == ui.pc \in {"reset_response", "reset_error", "push_user", "spawn"}

Failed(r) == threads[r].outcome \in Outcomes \ {"ok"}

\* C1: every dispatched request clears the in-flight flag in the end.  The
\* flag is set only while a request is being dispatched or a worker is
\* outstanding, the last step of every worker writes false whatever the
\* outcome of the request, and while the process runs a set flag is
\* followed by a cleared flag.
C1_FlagCleared ==
    /\ [](is_processing => (Dispatching \/ Outstanding # {}))
    /\ [][\A r \in 1..Len(threads) :
             (threads[r].pc # "done" /\ threads'[r].pc = "done")
                 => (threads[r].pc = "clear" /\ ~is_processing')]_vars
    /\ (is_processing ~> (~is_processing \/ aborted))

\* C1 witness: a request that failed has completed, nothing is outstanding
\* and the flag is clear again.
C1_Witness ==
    /\ ui.pc = "idle"
    /\ Outstanding = {}
    /\ \E r \in 1..Len(threads) : Failed(r)
    /\ \E r \in 1..Len(threads) : threads[r].outcome = "ok"
    /\ ~is_processing


\* C2: while a worker dispatched by send_to_ai has not completed,
\* is_processing is true, so update() keeps requesting repaints.
C2_RepaintWhileOutstanding == Outstanding # {} => is_processing

\* C3: at most one worker spawned by send_to_ai is outstanding.
C3_OneWorker == Cardinality(Outstanding) <= 1

AssistantTurns(r) ==
    {i \in DOMAIN chat_history : chat_history[i] = [role |-> "assistant", req |-> r]}

UserTurns(r) ==
    {i \in DOMAIN chat_history : chat_history[i] = [role |-> "user", req |-> r]}

\* C4: a request that fails stores an error and nothing else.  The failing
\* step of its worker writes the error slot and leaves the transcript and
\* current_response as they are; the worker then ends by clearing the flag;
\* the transcript never holds an assistant turn of a failed request, the
\* response slot never holds its reply, and of a failed question it holds at
\* most the one user turn (none of a failed summary).
C4_FailureLeavesTranscript ==
    /\ [](\A r \in 1..Len(threads) :
             Failed(r) =>
                 /\ AssistantTurns(r) = {}
                 /\ current_response # r
                 /\ Cardinality(UserTurns(r)) <=
                        (IF threads[r].origin = "ask" THEN 1 ELSE 0))
    /\ [][\A r \in 1..Len(threads) :
             (threads[r].pc = "post" /\ threads'[r].outcome \in Outcomes \ {"ok"})
                 => /\ error' = [kind |-> threads'[r].outcome, req |-> r]
                    /\ chat_history' = chat_history
                    /\ current_response' = current_response
                    /\ threads'[r].pc = "clear"]_vars
    /\ [][\A r \in 1..Len(threads) :
             (Failed(r) /\ threads[r].pc = "clear" /\ threads'[r].pc # "clear")
                 => (threads'[r].pc = "done" /\ ~is_processing')]_vars

\* C4 witness: the only request was a question, it failed to connect, and
\* its worker is done: the transcript is the user turn alone, the error is
\* set, the response is empty and the flag is false.
C4_Witness ==
    /\ Len(threads) = 1
    /\ threads[1].origin = "ask"
    /\ threads[1].outcome = "connect"
    /\ threads[1].pc = "done"
    /\ chat_history = << [role |-> "user", req |-> 1] >>
    /\ error = [kind |-> "connect", req |-> 1]
    /\ current_response = NoResponse
    /\ ~is_processing

\* C5: when clear_chat returns, the transcript is empty, the current
\* response is empty, the error is unset, and it has dispatched exactly one
\* request if a document is loaded and none otherwise.
C5_ClearChatLeavesEmpty ==
    [][(ui.caller = "clear" /\ ui.pc # "idle" /\ ui'.pc = "idle")
          => /\ chat_history' = << >>
             /\ current_response' = NoResponse
             /\ error' = NoError
             /\ Len(threads') - ui.base =
                    (IF file_content = EmptyString THEN 0 ELSE 1)]_vars

\* C6: in every reachable state, an error message means that the content is
\* empty and that there is no highlighted output.
C6_ErrorMeansNoContent ==
    error_message # "None" =>
        (file_content = EmptyString /\ ~highlighted_content.some)

\* C6 witness: a load attempt has failed on a read error.
C6_Witness ==
    /\ error_message = "ReadError"
    /\ file_content = EmptyString
    /\ highlighted_content = NoHighlight
    /\ ui.pc = "idle"

\* C7: no load, question or clear-chat action aborts the process.
C7_NoAbort == ~aborted

\* C8: the assistant turn that answers a question comes after the user turn
\* of that question, and a summary request has no user turn.
C8_UserTurnBeforeAnswer ==
    /\ \A j \in DOMAIN chat_history :
          (chat_history[j].role = "assistant"
              /\ threads[chat_history[j].req].origin = "ask")
          => \E i \in 1..(j - 1) :
                 chat_history[i] = [role |-> "user", req |-> chat_history[j].req]
    /\ \A r \in 1..Len(threads) :
          threads[r].origin # "ask" => UserTurns(r) = {}

\* The line terminators of a text: each LF, alone or after a CR.
Terminators(text) ==
    UNION {{<< i, k >> : k \in 1..text[i].n} :
              i \in {j \in DOMAIN text : text[j].ch = "nl"}}

EndsWithTerminator(text) == text[Len(text)].ch = "nl"

\* C9: for non-empty content, get_file_info reports bytes >= characters, and
\* a line count equal to the number of line terminators, plus one if the
\* content does not end with a terminator.
C9_Counts ==
    file_info # NoInfo =>
        /\ file_info.bytes >= file_info.chars
        /\ file_info.lines =
               Cardinality(Terminators(file_content))
               + (IF EndsWithTerminator(file_content) THEN 0 ELSE 1)

\* C9 witness: the counts of a text that ends with a terminator and holds a
\* multi-byte character have been reported.
C9_Witness ==
    /\ file_info # NoInfo
    /\ EndsWithTerminator(file_content)
    /\ file_info.lines >= 1
    /\ file_info.bytes > file_info.chars

LoadThreads == {r \in 1..Len(threads) : threads[r].origin \in {"new", "retry"}}

\* C10: the loader is re-run only by Try Again, which is enabled only while
\* an error is set and the path is non-empty.  With an empty path the
\* no-document error state is never left and nothing is loaded; a retry
\* starts from an error state; once the error is unset the loader does not
\* run again, so the error stays unset and the content stays as loaded; and
\* the load dispatches at most one summary in a run.
C10_ReloadOnlyFromError ==
    /\ []((ENABLED TryAgain) => (error_message # "None" /\ file_path # ""))
    /\ []((file_path = "" /\ ui.pc # "new")
            => /\ error_message = "NoPath"
               /\ file_content = EmptyString
               /\ LoadThreads = {}
               /\ ui.caller \notin {"new", "retry"})
    /\ [][(ui.pc = "idle" /\ ui'.caller = "retry")
            => error_message # "None"]_vars
    /\ [][(ui.pc # "new" /\ error_message = "None")
            => /\ error_message' = "None"
               /\ file_content' = file_content
               /\ highlighted_content' = highlighted_content
               /\ ui'.caller \in {"new", "retry"} => ui.caller = ui'.caller]_vars
    /\ [](Cardinality(LoadThreads)
            + (IF ui.caller \in {"new", "retry"} /\ ui.pc # "new" THEN 1 ELSE 0)
          <= 1)

\* C10 witness: a Try Again from an error state has loaded the document and
\* is dispatching the summary.
C10_Witness ==
    /\ ui.caller = "retry"
    /\ ui.pc = "set_processing"
    /\ error_message = "None"
    /\ file_content # EmptyString


\* Requests r and o ran side by side: one was spawned while the worker of
\* the other was outstanding.
Overlapped(r, o) == o \in threads[r].rivals \/ r \in threads[o].rivals

\* The worker of request r completes in this step, as the last of the
\* workers, after overlapping with another request.
CompletesLast(r) ==
    /\ threads[r].pc = "clear"
    /\ threads'[r].pc = "done"
    /\ Outstanding = {r}
    /\ \E o \in 1..Len(threads) : o # r /\ Overlapped(r, o)

C11_LastCompleterKeepsItsSlot ==
    [][\A r \in 1..Len(threads) :
          CompletesLast(r) =>
              IF threads[r].outcome = "ok"
              THEN current_response' = r
              ELSE error'.req = r]_vars

====
